---------------------------- MODULE Spec2Model ----------------------------
(***************************************************************************)
(* Model of jimkohl/python_api:                                            *)
(*   - marklogic/models/certificate/template.py : class Template           *)
(*   - mma.py : class MMA (run, process_script)                            *)
(*                                                                         *)
(* Three specifications share the variables:                               *)
(*   Spec        one Template object driven through its public methods,    *)
(*               the management server answering each HTTP request with    *)
(*               an arbitrary status, body and (for GETs of properties)    *)
(*               payload;                                                  *)
(*   SpecRun     MMA.run applied to an arbitrary argv;                     *)
(*   SpecScript  MMA.process_script replaying an arbitrary script file.    *)
(***************************************************************************)
EXTENDS Integers, Sequences, FiniteSets, TLC

VARIABLES
    constructed,   \* TRUE once a Template object exists
    config,        \* Template._config : a dictionary (function on its keys)
    life,          \* history of the object: "new", "created", "deleted", "unmarshalled"
    call,          \* the last method call: what it sent, how it ended
    run,           \* the last MMA.run call (SpecRun)
    script,        \* the script file process_script is reading (SpecScript)
    lineno,        \* number of lines of the script read so far
    command,       \* process_script's accumulator `command`
    dispatched,    \* the argvs process_script handed to run, in order
    pc             \* process_script's position

vars == <<constructed, config, life, call, run, script, lineno, command, dispatched, pc>>

templateVars == <<constructed, config, life, call>>
runVars == <<run>>
scriptVars == <<script, lineno, command, dispatched, pc>>

-----------------------------------------------------------------------------
(* Python values *)

None == "None"

EmptyDict == [k \in {} |-> None]

DictSet(d, k, v) == [x \in (DOMAIN d) \cup {k} |-> IF x = k THEN v ELSE d[x]]

DictDel(d, k) == [x \in (DOMAIN d) \ {k} |-> d[x]]

\* d[k] where a missing key is reported as None by the accessor methods
DictGet(d, k) == IF k \in DOMAIN d THEN d[k] ELSE None

-----------------------------------------------------------------------------
(* Request objects and raw dictionaries.  A value stored under 'req' is     *)
(* tagged with the Python type it has.                                      *)

RequestConfigs == { [organizationName |-> "temp"], [organizationName |-> "acme"] }

RequestObj(c) == [kind |-> "Request", cfg |-> c]

RawDict(c) == [kind |-> "dict", cfg |-> c]

\* isinstance(v, Request)
IsRequest(v) == v.kind = "Request"

\* marklogic.utilities.validators.assert_type(value, type): the value when
\* it is an instance of the type, a validation error otherwise.
assert_type_ok(v, type) == v.kind = type

\* marklogic.models.certificate.request.Request.unmarshal(config)
Request_unmarshal(d) == RequestObj(d.cfg)


\* marklogic.utilities.validators.validate_custom(message): raises the
\* custom validation error.
validate_custom == "ValidationError"

-----------------------------------------------------------------------------
(* Input domains *)

Names == {"tmpl-a"}

Descriptions == {"desc-a"}

KeyTypes == {"rsa", "dsa"}

KeyLengths == {2048}

PassPhrases == {"secret"}

Ids == {"id-1", "id-2"}

Versions == {"1"}

\* dictionaries a caller may hand to set_options
OptionDicts == { EmptyDict }

\* valid_for arguments: an int, and a string holding the same digits
ValidFors == { [kind |-> "int", val |-> 30], [kind |-> "str", val |-> 30] }

\* HTTP status codes the management server may answer with
Statuses == {200, 201, 204, 404, 500}

\* response.text
Texts == {"body-a", "body-b"}

\* response.headers['location'] of the POST that creates a template;
\* None when the response carries no such header
Locations == {None, "/manage/v2/certificate-templates/id-1"}

\* what the server answers to one request
Response(status, text) == [status |-> status, text |-> text]

Responses == { Response(s, t) : s \in Statuses, t \in Texts }

\* the answer to a request that was never sent
NoResponse == Response(0, None)

\* json.loads(response.text) of GET .../properties: the server's view of a
\* template, with the server-assigned template-id and template-version.
ServerPayload(id, withReq) ==
    LET base == [k \in {"template-id", "template-version", "template-name",
                        "template-description", "key-type"} |->
                    CASE k = "template-id" -> id
                      [] k = "template-version" -> "1"
                      [] k = "template-name" -> "tmpl-a"
                      [] k = "template-description" -> "desc-a"
                      [] OTHER -> "rsa"]
    IN  IF withReq THEN DictSet(base, "req", RawDict([organizationName |-> "acme"]))
        ELSE base

ServerPayloads == { ServerPayload("id-1", TRUE), ServerPayload("id-2", FALSE) }

\* configurations a caller may hand to Template.unmarshal directly
CallerPayloads ==
    { [k \in {"template-name", "key-type"} |->
          IF k = "template-name" THEN "tmpl-b" ELSE kt] : kt \in KeyTypes }

-----------------------------------------------------------------------------
(* Bookkeeping of one method call *)

Target(path, arg) == [path |-> path, arg |-> arg]

\* one request and the response to it: location is the response's location
\* header (None when absent or not looked at), json is json.loads of its text
\* where the code parses it (EmptyDict elsewhere)
Http(method, target, body, status, text) ==
    [method |-> method, target |-> target, body |-> body,
     status |-> status, text |-> text, location |-> None, json |-> EmptyDict]

Call(op, outcome, exc_arg, result, sent, pre) ==
    [op |-> op, outcome |-> outcome, exc_arg |-> exc_arg, result |-> result,
     sent |-> sent, pre |-> pre]

NoCall == Call("none", "none", None, None, <<>>, EmptyDict)

Returned(op, result, sent, pre) == Call(op, "return", None, result, sent, pre)

Raised(op, exc, arg, sent, pre) == Call(op, exc, arg, None, sent, pre)

Unexpected == "UnexpectedManagementAPIResponse"

-----------------------------------------------------------------------------
(* Template accessors *)

template_id(c) == DictGet(c, "template-id")

template_version(c) == DictGet(c, "template-version")

key_type(c) == DictGet(c, "key-type")

req(c) == DictGet(c, "req")

\* Template.marshal: a new top-level dictionary; the request is replaced by
\* its own _config dictionary.
marshal(c) ==
    [k \in DOMAIN c |-> IF k = "req" THEN RawDict(c[k].cfg) ELSE c[k]]

\* unmarshal leaving the request as the raw dictionary of the payload
unmarshal_raw(cfg) == cfg

\* the _config of the Template that Template.unmarshal(config) returns
unmarshal(cfg) ==
    IF "req" \in DOMAIN cfg
    THEN DictSet(cfg, "req", Request_unmarshal(cfg["req"]))
    ELSE cfg

\* whether marshal can run: line 263 reads `_config` of the value under
\* 'req', which only a Request has
marshal_ok(c) == "req" \in DOMAIN c => IsRequest(c["req"])

\* marshal handing out the template's own dictionary
marshal_result_alias(c) == [aliases_config |-> TRUE, dict |-> c]

\* the object marshal returns: `struct = { }` is a new dictionary, filled
\* key by key, so changing its keys does not reach self._config
marshal_result(c) == [aliases_config |-> FALSE, dict |-> marshal(c)]

\* del d[k] for every k in keys
DictDelAll(d, keys) == [x \in (DOMAIN d) \ keys |-> d[x]]

-----------------------------------------------------------------------------
(* Status classification, one per request site *)

create_post_ok(status) == status \in {200, 201, 204}

create_get_ok(status) == status = 200

\* update accepting every success status of the management API
update_ok_uniform(status) == status \in {200, 201, 204}

update_ok(status) == status \in {200, 204}

delete_ok(status) == status \in {200, 204} \/ status = 404

generate_ok(status) == status = 201

\* get_certificates_for_template, get_certificate and lookup:
\* "value" on 200, "none" on 404, "raise" otherwise
get_class(status) ==
    IF status = 200 THEN "value" ELSE IF status = 404 THEN "none" ELSE "raise"

list_ok(status) == status = 200

-----------------------------------------------------------------------------
(* Construction *)

\* Template.__init__(name, description, cert_request, key_type, key_length,
\* pass_phrase); None stands for an argument left at None, and key_length
\* is <<>> for None or <<n>> for the integer n.
Construct(name, description, cert_request, kt, kl, pp) ==
    /\ ~constructed
    /\ IF ~assert_type_ok(cert_request, "Request")
       THEN /\ call' = Raised("__init__", "ValidationError", None, <<>>, EmptyDict)
            /\ UNCHANGED <<constructed, config, life>>
       ELSE IF pp # None
       THEN \* line 60 assigns to the undefined name `optoins`
            /\ call' = Raised("__init__", "NameError", None, <<>>, EmptyDict)
            /\ UNCHANGED <<constructed, config, life>>
       ELSE LET c0 == [k \in {"template-name", "template-description", "req"} |->
                          CASE k = "template-name" -> name
                            [] k = "template-description" -> description
                            [] OTHER -> cert_request]
                c1 == IF kt # None THEN DictSet(c0, "key-type", kt) ELSE c0
                c2 == IF kl # <<>>
                      THEN DictSet(c1, "options", [x \in {"key-length"} |-> kl[1]])
                      ELSE c1
            IN  /\ config' = c2
                /\ constructed' = TRUE
                /\ life' = "new"
                /\ call' = Returned("__init__", "self", <<>>, EmptyDict)
    /\ UNCHANGED <<runVars, scriptVars>>

\* Template.unmarshal(config), called by the user of the library
Unmarshal(cfg) ==
    /\ ~constructed
    /\ config' = unmarshal(cfg)
    /\ constructed' = TRUE
    /\ life' = "unmarshalled"
    /\ call' = Returned("unmarshal", "Template", <<>>, EmptyDict)
    /\ UNCHANGED <<runVars, scriptVars>>

-----------------------------------------------------------------------------
(* Setters *)

Setter(op, c) ==
    /\ constructed
    /\ config' = c
    /\ call' = Returned(op, "self", <<>>, config)
    /\ UNCHANGED <<constructed, life, runVars, scriptVars>>

set_template_name(value) == Setter("set_template_name", DictSet(config, "template-name", value))

set_template_description(value) ==
    Setter("set_template_description", DictSet(config, "template-description", value))

\* `value is not 'rsa'` compares object identity: a string different from
\* 'rsa' is never the same object, an equal string is the same object or not
\* depending on how the interpreter built it (same_object).
set_key_type(value, same_object) ==
    /\ constructed
    /\ (value # "rsa" => ~same_object)
    /\ IF ~same_object
       THEN /\ call' = Raised("set_key_type", validate_custom, None, <<>>, config)
            /\ UNCHANGED config
       ELSE /\ config' = DictSet(config, "key-type", value)
            /\ call' = Returned("set_key_type", "self", <<>>, config)
    /\ UNCHANGED <<constructed, life, runVars, scriptVars>>

OptionsOf(c) == IF "options" \in DOMAIN c THEN c["options"] ELSE EmptyDict

set_key_length(value) ==
    Setter("set_key_length",
           DictSet(config, "options", DictSet(OptionsOf(config), "key-length", value)))

set_pass_phrase(value) ==
    Setter("set_pass_phrase",
           DictSet(config, "options", DictSet(OptionsOf(config), "pass-phrase", value)))

set_options(value) == Setter("set_options", DictSet(config, "options", value))

set_req(value) ==
    /\ constructed
    /\ IF assert_type_ok(value, "Request")
       THEN /\ config' = DictSet(config, "req", value)
            /\ call' = Returned("set_req", "self", <<>>, config)
       ELSE /\ call' = Raised("set_req", "ValidationError", None, <<>>, config)
            /\ UNCHANGED config
    /\ UNCHANGED <<constructed, life, runVars, scriptVars>>

-----------------------------------------------------------------------------
(* Operations that talk to the management server *)

TemplatesUri == Target("/manage/v2/certificate-templates", None)

TemplateUri(c) == Target("/manage/v2/certificate-templates/{id}", template_id(c))

PropertiesUri(id) == Target("/manage/v2/certificate-templates/{id}/properties", id)

\* the GET of create aimed at the collection instead of the new resource
LocationUri_collection(loc) == TemplatesUri

LocationUri(loc) == Target("{location}/properties", loc)

\* Template.create.  r1 answers the POST and carries the location header
\* loc; r2 answers the GET, and is NoResponse exactly when no GET is sent;
\* payload is json.loads of r2's text.
create(r1, loc, r2, payload) ==
    /\ constructed
    /\ LET post == [Http("POST", TemplatesUri, marshal(config), r1.status, r1.text)
                       EXCEPT !.location = loc]
           get == [Http("GET", LocationUri(loc), EmptyDict, r2.status, r2.text)
                      EXCEPT !.json = IF create_get_ok(r2.status) THEN payload ELSE EmptyDict]
       IN  IF ~create_post_ok(r1.status)
           THEN /\ r2 = NoResponse
                /\ call' = Raised("create", Unexpected, r1.text, <<post>>, config)
                /\ UNCHANGED <<config, life>>
           ELSE IF loc = None
           THEN \* response.headers['location'] on a response without it
                /\ r2 = NoResponse
                /\ call' = Raised("create", "KeyError", "location", <<post>>, config)
                /\ UNCHANGED <<config, life>>
           ELSE IF create_get_ok(r2.status)
           THEN /\ r2 # NoResponse
                /\ config' = unmarshal(payload)
                /\ life' = "created"
                /\ call' = Returned("create", "self", <<post, get>>, config)
           ELSE /\ r2 # NoResponse
                /\ call' = Raised("create", Unexpected, r2.text, <<post, get>>, config)
                /\ UNCHANGED <<config, life>>
    /\ UNCHANGED <<constructed, runVars, scriptVars>>

\* Template.lookup (classmethod): the outcome of the call, as a Call record
\* for the operation `op` that made it
lookup_call(op, tempid, status, text, pre) ==
    LET get == Http("GET", PropertiesUri(tempid), EmptyDict, status, text)
    IN  CASE get_class(status) = "value" -> Returned(op, "Template", <<get>>, pre)
          [] get_class(status) = "none" -> Returned(op, None, <<get>>, pre)
          [] OTHER -> Raised(op, Unexpected, text, <<get>>, pre)

lookup(tempid, status, text) ==
    /\ call' = lookup_call("lookup", tempid, status, text, config)
    /\ UNCHANGED <<constructed, config, life, runVars, scriptVars>>

\* Template.read: after a lookup that returns, line 333 reads the undefined
\* name `auth`
read(status, text) ==
    /\ constructed
    /\ IF template_id(config) = None
       THEN call' = Raised("read", validate_custom, None, <<>>, config)
       ELSE LET lk == lookup_call("read", template_id(config), status, text, config)
            IN  IF lk.outcome = "return"
                THEN call' = Raised("read", "NameError", "auth", lk.sent, config)
                ELSE call' = lk
    /\ UNCHANGED <<constructed, config, life, runVars, scriptVars>>

\* an update body that still carries the server-assigned version
update_payload_keeps_version(c) == DictDel(marshal(c), "template-id")

\* the body Template.update sends; the two `del` statements need their keys
update_payload(c) == DictDel(DictDel(marshal(c), "template-version"), "template-id")

\* Template.update
update(status, text) ==
    /\ constructed
    /\ IF "template-version" \notin DOMAIN config
       THEN call' = Raised("update", "KeyError", "template-version", <<>>, config)
       ELSE IF "template-id" \notin DOMAIN config
       THEN call' = Raised("update", "KeyError", "template-id", <<>>, config)
       ELSE LET put == Http("PUT", PropertiesUri(template_id(config)),
                            update_payload(config), status, text)
            IN  IF ~update_ok(status)
                THEN call' = Raised("update", Unexpected, text, <<put>>, config)
                ELSE call' = Returned("update", "self", <<put>>, config)
    /\ UNCHANGED <<constructed, config, life, runVars, scriptVars>>

\* delete clearing the local ID before it looks at the status
delete_clears_first(status, text) ==
    /\ constructed
    /\ "template-id" \in DOMAIN config
    /\ config' = DictDel(config, "template-id")
    /\ LET del == Http("DELETE", TemplateUri(config), EmptyDict, status, text)
       IN  IF ~delete_ok(status)
           THEN /\ call' = Raised("delete", Unexpected, text, <<del>>, config)
                /\ UNCHANGED life
           ELSE /\ life' = "deleted"
                /\ call' = Returned("delete", "self", <<del>>, config)
    /\ UNCHANGED <<constructed, runVars, scriptVars>>

\* Template.delete
delete(status, text) ==
    /\ constructed
    /\ LET del == Http("DELETE", TemplateUri(config), EmptyDict, status, text)
       IN  IF ~delete_ok(status)
           THEN /\ call' = Raised("delete", Unexpected, text, <<del>>, config)
                /\ UNCHANGED <<config, life>>
           ELSE IF "template-id" \notin DOMAIN config
           THEN \* del self._config['template-id'] on a template without one
                /\ call' = Raised("delete", "KeyError", "template-id", <<del>>, config)
                /\ UNCHANGED <<config, life>>
           ELSE /\ config' = DictDel(config, "template-id")
                /\ life' = "deleted"
                /\ call' = Returned("delete", "self", <<del>>, config)
    /\ UNCHANGED <<constructed, runVars, scriptVars>>


\* the two generate operations differ only in their payload
generate(op, payload, valid_for, status, text) ==
    /\ constructed
    /\ IF ~assert_type_ok(valid_for, "int")
       THEN call' = Raised(op, "ValidationError", None, <<>>, config)
       ELSE LET post == Http("POST", TemplateUri(config), payload, status, text)
            IN  IF ~generate_ok(status)
                THEN call' = Raised(op, Unexpected, text, <<post>>, config)
                ELSE call' = Returned(op, "self", <<post>>, config)
    /\ UNCHANGED <<constructed, config, life, runVars, scriptVars>>

\* Template.generate_template_certificate_authority
generate_template_certificate_authority(valid_for, status, text) ==
    generate("generate_template_certificate_authority",
             [k \in {"operation", "valid-for"} |->
                 IF k = "operation" THEN "generate-template-certificate-authority"
                 ELSE valid_for.val],
             valid_for, status, text)

\* Template.generate_temporary_certificate
generate_temporary_certificate(valid_for, if_necessary, status, text) ==
    generate("generate_temporary_certificate",
             [k \in {"operation", "valid-for", "common-name", "dns-name",
                     "ip-addr", "if-necessary"} |->
                 CASE k = "operation" -> "generate-temporary-certificate"
                   [] k = "valid-for" -> valid_for.val
                   [] k = "common-name" -> "Example Corp"
                   [] k = "dns-name" -> "example.com"
                   [] k = "ip-addr" -> "10.0.0.1"
                   [] OTHER -> IF if_necessary THEN "true" ELSE "false"],
             valid_for, status, text)

\* Template.get_certificate: line 465 evaluates `ip-addr`, the difference of
\* two undefined names, before any request is built
get_certificate ==
    /\ constructed
    /\ call' = Raised("get_certificate", "NameError", "ip", <<>>, config)
    /\ UNCHANGED <<constructed, config, life, runVars, scriptVars>>

\* Template.get_certificates_for_template
get_certificates_for_template(status, text) ==
    /\ constructed
    /\ LET post == Http("POST", TemplateUri(config),
                        [k \in {"operation"} |-> "get-certificates-for-template"],
                        status, text)
       IN  CASE get_class(status) = "value" ->
                  call' = Returned("get_certificates_for_template", "json", <<post>>, config)
             [] get_class(status) = "none" ->
                  call' = Returned("get_certificates_for_template", None, <<post>>, config)
             [] OTHER ->
                  call' = Raised("get_certificates_for_template", Unexpected, text,
                                 <<post>>, config)
    /\ UNCHANGED <<constructed, config, life, runVars, scriptVars>>

\* Template.list (classmethod)
list(status, text) ==
    /\ LET get == Http("GET", TemplatesUri, EmptyDict, status, text)
       IN  IF ~list_ok(status)
           THEN call' = Raised("list", Unexpected, text, <<get>>, config)
           ELSE call' = Returned("list", "list", <<get>>, config)
    /\ UNCHANGED <<constructed, config, life, runVars, scriptVars>>

-----------------------------------------------------------------------------
(* Callers of marshal and unmarshal *)

\* struct = t.marshal(), then `del struct[k]` for every k in keys (as update
\* does at lines 349-351)
marshal_then_delete(keys) ==
    /\ constructed
    /\ keys \subseteq DOMAIN config
    /\ LET struct == marshal_result(config)
       IN  /\ config' = IF struct.aliases_config THEN DictDelAll(config, keys) ELSE config
           /\ call' = Returned("marshal", "struct", <<>>, config)
    /\ UNCHANGED <<constructed, life, runVars, scriptVars>>

\* Template.unmarshal(t.marshal()).marshal() next to t.marshal(): the result
\* holds the two structures
marshal_roundtrip ==
    /\ constructed
    /\ LET first == marshal(config)
           second == unmarshal(first)
       IN  IF ~marshal_ok(second)
           THEN call' = Raised("roundtrip", "AttributeError", "_config", <<>>, config)
           ELSE call' = Returned("roundtrip", [first |-> first, second |-> marshal(second)],
                                 <<>>, config)
    /\ UNCHANGED <<constructed, config, life, runVars, scriptVars>>

-----------------------------------------------------------------------------
(* MMA.run.  A command-line token is the sequence of its characters. *)

tok_debug == <<"-", "-", "d", "e", "b", "u", "g">>

tok_opt == <<"-", "x">>

tok_type == <<"-", "-", "t", "y", "p", "e">>

tok_param == <<"k", "=", "v">>

tok_list == <<"l", "i", "s", "t">>

tok_create == <<"c", "r", "e", "a", "t", "e">>

tok_start == <<"s", "t", "a", "r", "t">>

tok_stop == <<"s", "t", "o", "p">>

tok_run == <<"r", "u", "n">>

tok_http == <<"h", "t", "t", "p">>

tok_xdbc == <<"x", "d", "b", "c">>

tok_odbc == <<"o", "d", "b", "c">>

tok_webdav == <<"w", "e", "b", "d", "a", "v">>

tok_servers == <<"s", "e", "r", "v", "e", "r", "s">>

tok_server == <<"s", "e", "r", "v", "e", "r">>

tok_script == <<"s", "c", "r", "i", "p", "t">>

tok_db == <<"d", "b">>

tok_host == <<"h", "o", "s", "t">>

tok_status == <<"s", "t", "a", "t", "u", "s">>

tok_init == <<"i", "n", "i", "t">>

tok_save == <<"s", "a", "v", "e">>

tok_switch == <<"s", "w", "i", "t", "c", "h">>

tok_clear == <<"c", "l", "e", "a", "r">>

tok_log == <<"l", "o", "g">>

startswith(tok, ch) == Len(tok) > 0 /\ tok[1] = ch

contains(tok, ch) == \E i \in 1..Len(tok) : tok[i] = ch

\* the loop body with --debug taking an argument like every other option
classify_token_debug_takes_arg(st, tok) ==
    IF st.optarg
    THEN [st EXCEPT !.options = Append(@, tok), !.optarg = FALSE]
    ELSE IF startswith(tok, "-")
    THEN [st EXCEPT !.options = Append(@, tok), !.optarg = TRUE]
    ELSE IF contains(tok, "=")
    THEN [st EXCEPT !.params = Append(@, tok)]
    ELSE [st EXCEPT !.positional = Append(@, tok)]

\* one iteration of the loop `for tok in argv` (lines 44-55)
classify_token(st, tok) ==
    IF st.optarg
    THEN [st EXCEPT !.options = Append(@, tok), !.optarg = FALSE]
    ELSE IF startswith(tok, "-")
    THEN [st EXCEPT !.options = Append(@, tok), !.optarg = (tok # tok_debug)]
    ELSE IF contains(tok, "=")
    THEN [st EXCEPT !.params = Append(@, tok)]
    ELSE [st EXCEPT !.positional = Append(@, tok)]

RECURSIVE classify_loop(_, _, _)
classify_loop(argv, i, st) ==
    IF i > Len(argv) THEN st
    ELSE classify_loop(argv, i + 1, classify_token(st, argv[i]))

\* the three lists after the loop
classify(argv) ==
    classify_loop(argv, 1,
                  [options |-> <<>>, params |-> <<>>, positional |-> <<>>, optarg |-> FALSE])

empty_artifact_commands ==
    {tok_start, tok_status, tok_stop, tok_init, tok_save, tok_switch, tok_clear, tok_log}

server_subtypes == {tok_http, tok_xdbc, tok_odbc, tok_webdav}

\* del(seq[i])
DelAt(seq, i) == SubSeq(seq, 1, i - 1) \o SubSeq(seq, i + 1, Len(seq))

\* The command template table (marklogic.cli.template.Template): for a
\* command, whether it is known, whether it has a parser of its own, and the
\* artifacts it takes.
command_template(cmd) ==
    CASE cmd = tok_start  -> [known |-> TRUE, parser |-> TRUE, artifacts |-> {}]
      [] cmd = tok_run    -> [known |-> TRUE, parser |-> FALSE, artifacts |-> {tok_script}]
      [] cmd = tok_stop   -> [known |-> TRUE, parser |-> FALSE, artifacts |-> {tok_host}]
      [] cmd = tok_list   -> [known |-> TRUE, parser |-> FALSE, artifacts |-> {tok_servers, tok_db}]
      [] cmd = tok_create -> [known |-> TRUE, parser |-> FALSE, artifacts |-> {tok_server, tok_db}]
      [] OTHER            -> [known |-> FALSE, parser |-> FALSE, artifacts |-> {}]

\* How a call of run ends.  `artifact` is <<>> for None and <<tok>> otherwise;
\* `classified` keeps the three lists as the loop left them; parser_argv is
\* the argv rebuilt at lines 92-95 (<<>> and rebuilt = FALSE when run ended
\* before them).
RunEnd(argv, classified, options, positional, params, artifact, rebuilt, outcome, printed, exit_status, invoked) ==
    [argv |-> argv, classified |-> classified,
     options |-> options, positional |-> positional, params |-> params,
     artifact |-> artifact, rebuilt |-> rebuilt,
     parser_argv |-> IF rebuilt THEN options \o positional \o params ELSE <<>>,
     outcome |-> outcome, printed |-> printed, exit_status |-> exit_status,
     invoked |-> invoked]

\* lines 74-85, "Hack for the server case"; needs_third reports the
\* IndexError of positional[2] on a list of two tokens
server_hack(options, positional, artifact) ==
    IF artifact # <<>> /\ artifact[1] \in server_subtypes
    THEN LET stype == artifact[1]
             art == IF positional[1] = tok_list THEN tok_servers ELSE tok_server
             pos1 == [positional EXCEPT ![2] = art]
         IN  IF Len(pos1) < 3
             THEN [index_error |-> TRUE, options |-> options, positional |-> pos1,
                   artifact |-> <<art>>]
             ELSE [index_error |-> FALSE,
                   options |-> options \o <<tok_type, stype>>,
                   positional |-> IF pos1[3] = art THEN DelAt(pos1, 3) ELSE pos1,
                   artifact |-> <<art>>]
    ELSE [index_error |-> FALSE, options |-> options, positional |-> positional,
          artifact |-> artifact]

\* lines 87-90, "Hack for the stop case"
stop_hack(h) ==
    IF h.positional[1] = tok_stop /\ h.artifact = <<>>
    THEN [h EXCEPT !.positional = Append(@, tok_host), !.artifact = <<tok_host>>]
    ELSE h

\* MMA.run(argv).  parse_ok: parser.parse_args accepts the rebuilt argv;
\* cred_ok: args['credentials'] splits into user and password.
run_result(argv, parse_ok, cred_ok) ==
    LET c == classify(argv)
        cl == [options |-> c.options, positional |-> c.positional, params |-> c.params]
        early(outcome, printed, status) ==
            RunEnd(argv, cl, c.options, c.positional, c.params, <<>>, FALSE,
                   outcome, printed, status, "none")
    IN
    IF Len(c.positional) = 0
    THEN early("exit", "usage", 1)
    ELSE IF Len(c.positional) < 2 /\ c.positional[1] \notin empty_artifact_commands
    THEN early("exit", "usage", 1)
    ELSE
    LET cmd == c.positional[1]
        artifact0 == IF Len(c.positional) >= 2 THEN <<c.positional[2]>> ELSE <<>>
        h1 == server_hack(c.options, c.positional, artifact0)
    IN
    IF h1.index_error
    THEN RunEnd(argv, cl, h1.options, h1.positional, c.params, h1.artifact, FALSE,
                "IndexError", "traceback", 1, "none")
    ELSE
    LET h == stop_hack(h1)
        templ == command_template(cmd)
        late(outcome, printed, status, invoked) ==
            RunEnd(argv, cl, h.options, h.positional, c.params, h.artifact, TRUE,
                   outcome, printed, status, invoked)
    IN
    IF ~templ.known
    THEN late("exit", "unrecognized", 1, "none")
    ELSE IF h.artifact = <<>> /\ ~templ.parser
    THEN late("exit", "unrecognized", 1, "none")
    ELSE IF h.artifact # <<>> /\ h.artifact[1] \notin templ.artifacts
    THEN late("exit", "wrong-artifact", 1, "none")
    ELSE IF ~parse_ok
    THEN late("exit", "parser-error", 2, "none")
    ELSE IF ~cred_ok
    THEN late("exit", "credentials", 1, "none")
    ELSE IF cmd = tok_run
    THEN late("return", "none", 0, "process_script")
    ELSE late("return", "none", 0, "code")

-----------------------------------------------------------------------------
(* MMA.process_script.  A line is the sequence of its characters. *)

RECURSIVE lstrip(_)
lstrip(str) == IF Len(str) > 0 /\ str[1] = " " THEN lstrip(Tail(str)) ELSE str

RECURSIVE rstrip(_)
rstrip(str) ==
    IF Len(str) > 0 /\ str[Len(str)] = " " THEN rstrip(SubSeq(str, 1, Len(str) - 1)) ELSE str

\* str.strip()
strip(str) == rstrip(lstrip(str))

\* str.endswith(ch)
endswith(str, ch) == Len(str) > 0 /\ str[Len(str)] = ch

\* shlex.split on text without quotes: whitespace separates tokens and a
\* backslash escapes the character after it; a backslash with nothing after
\* it is a ValueError (ok = FALSE)
shlex_char(st, ch) ==
    IF st.escaped
    THEN [st EXCEPT !.cur = Append(@, ch), !.intoken = TRUE, !.escaped = FALSE]
    ELSE IF ch = "\\"
    THEN [st EXCEPT !.escaped = TRUE, !.intoken = TRUE]
    ELSE IF ch = " "
    THEN IF st.intoken
         THEN [st EXCEPT !.tokens = Append(@, st.cur), !.cur = <<>>, !.intoken = FALSE]
         ELSE st
    ELSE [st EXCEPT !.cur = Append(@, ch), !.intoken = TRUE]

RECURSIVE shlex_loop(_, _, _)
shlex_loop(str, i, st) ==
    IF i > Len(str) THEN st ELSE shlex_loop(str, i + 1, shlex_char(st, str[i]))

shlex_split(str) ==
    LET st == shlex_loop(str, 1, [tokens |-> <<>>, cur |-> <<>>, intoken |-> FALSE,
                                  escaped |-> FALSE])
    IN  [ok |-> ~st.escaped,
         tokens |-> IF st.intoken THEN Append(st.tokens, st.cur) ELSE st.tokens]

line_start == <<"s", "t", "a", "r", "t">>

line_continued == <<"l", "i", "s", "t", " ", "\\">>

line_db == <<"d", "b">>

line_backslash == <<"\\">>

line_blank == <<>>

line_padded == <<" ", " ", "s", "t", "o", "p", " ">>

line_run == <<"r", "u", "n", " ", "s", "c", "r", "i", "p", "t">>

LinePool == {line_start, line_continued, line_db, line_backslash, line_blank,
             line_padded, line_run}


-----------------------------------------------------------------------------
(* Bounds *)

\* longest argv handed to run
MaxArgv == 4

\* longest script file
MaxLines == 3

TokenPool == {tok_debug, tok_opt, tok_param, tok_list, tok_create, tok_start,
              tok_stop, tok_http, tok_servers, tok_server, tok_db}

Argvs == UNION { [1..n -> TokenPool] : n \in 0..MaxArgv }

Scripts == UNION { [1..n -> LinePool] : n \in 0..MaxLines }

-----------------------------------------------------------------------------
(* The command line: one call of run per process (MMA.main) *)

NoLists == [options |-> <<>>, positional |-> <<>>, params |-> <<>>]

NoRun == RunEnd(<<>>, NoLists, <<>>, <<>>, <<>>, <<>>, FALSE, "none", "none", 0, "none")

Run(argv, parse_ok, cred_ok) ==
    /\ run.outcome = "none"
    /\ run' = run_result(argv, parse_ok, cred_ok)
    /\ UNCHANGED <<templateVars, scriptVars>>

-----------------------------------------------------------------------------
(* process_script, one loop iteration per step *)

\* open(scriptfn)
OpenScript(file) ==
    /\ pc = "idle"
    /\ script' = file
    /\ pc' = "reading"
    /\ UNCHANGED <<lineno, command, dispatched, templateVars, runVars>>

\* the body of `for line in script` (lines 151-160); nested_ok: a script
\* started by the dispatched command itself ran to its end
ReadLine(parse_ok, cred_ok, nested_ok) ==
    /\ pc = "reading"
    /\ lineno < Len(script)
    /\ lineno' = lineno + 1
    /\ LET line == strip(script[lineno + 1])
           cmd == command \o line
       IN  IF endswith(cmd, "\\")
           THEN /\ command' = SubSeq(cmd, 1, Len(cmd) - 1)
                /\ UNCHANGED <<dispatched, pc>>
           ELSE LET sp == shlex_split(strip(cmd))
                    r == run_result(sp.tokens, parse_ok, cred_ok)
                IN  IF ~sp.ok
                    THEN /\ pc' = "ValueError"
                         /\ command' = strip(cmd)
                         /\ UNCHANGED dispatched
                    ELSE /\ dispatched' = Append(dispatched,
                                [argv |-> sp.tokens, upto |-> lineno + 1,
                                 outcome |-> r.outcome, invoked |-> r.invoked])
                         /\ IF r.outcome = "return" /\ (r.invoked = "process_script" => nested_ok)
                            THEN /\ command' = <<>>
                                 /\ UNCHANGED pc
                            ELSE /\ command' = strip(cmd)
                                 /\ pc' = "run_exited"
    /\ UNCHANGED <<script, templateVars, runVars>>

\* lines 162-164, after the loop
EndOfFile ==
    /\ pc = "reading"
    /\ lineno = Len(script)
    /\ pc' = IF command # <<>> THEN "premature_eof" ELSE "returned"
    /\ UNCHANGED <<script, lineno, command, dispatched, templateVars, runVars>>

-----------------------------------------------------------------------------
(* Specifications *)

Init ==
    /\ constructed = FALSE
    /\ config = EmptyDict
    /\ life = "none"
    /\ call = NoCall
    /\ run = NoRun
    /\ script = <<>>
    /\ lineno = 0
    /\ command = <<>>
    /\ dispatched = <<>>
    /\ pc = "idle"

Next ==
    \/ \E n \in Names, d \in Descriptions,
          r \in {RequestObj(c) : c \in RequestConfigs} \cup {RawDict(c) : c \in RequestConfigs},
          kt \in KeyTypes \cup {None}, kl \in {<<>>} \cup {<<n2>> : n2 \in KeyLengths},
          pp \in PassPhrases \cup {None} :
          Construct(n, d, r, kt, kl, pp)
    \/ \E cfg \in ServerPayloads \cup CallerPayloads : Unmarshal(cfg)
    \/ \E v \in Names : set_template_name(v)
    \/ \E v \in Descriptions : set_template_description(v)
    \/ \E v \in KeyTypes, same \in BOOLEAN : set_key_type(v, same)
    \/ \E v \in KeyLengths : set_key_length(v)
    \/ \E v \in PassPhrases : set_pass_phrase(v)
    \/ \E v \in OptionDicts : set_options(v)
    \/ \E v \in {RequestObj(c) : c \in RequestConfigs} \cup {RawDict(c) : c \in RequestConfigs} :
          set_req(v)
    \/ \E r1 \in Responses, loc \in Locations, r2 \in Responses \cup {NoResponse},
          payload \in ServerPayloads : create(r1, loc, r2, payload)
    \/ \E s \in Statuses, t \in Texts : read(s, t)
    \/ \E s \in Statuses, t \in Texts : update(s, t)
    \/ \E s \in Statuses, t \in Texts : delete(s, t)
    \/ \E vf \in ValidFors, s \in Statuses, t \in Texts :
          generate_template_certificate_authority(vf, s, t)
    \/ \E vf \in ValidFors, n \in BOOLEAN, s \in Statuses, t \in Texts :
          generate_temporary_certificate(vf, n, s, t)
    \/ get_certificate
    \/ \E s \in Statuses, t \in Texts : get_certificates_for_template(s, t)
    \/ \E s \in Statuses, t \in Texts : list(s, t)
    \/ \E id \in Ids, s \in Statuses, t \in Texts : lookup(id, s, t)
    \/ \E keys \in {{"req"}, {"template-name", "template-description"}} :
          marshal_then_delete(keys)
    \/ marshal_roundtrip

Spec == Init /\ [][Next]_vars

NextRun ==
    /\ run.outcome = "none"
    /\ \E argv \in Argvs, parse_ok \in BOOLEAN, cred_ok \in BOOLEAN : Run(argv, parse_ok, cred_ok)

SpecRun == Init /\ [][NextRun]_vars

NextScript ==
    \/ \E file \in Scripts : OpenScript(file)
    \/ \E parse_ok \in BOOLEAN, cred_ok \in BOOLEAN, nested_ok \in BOOLEAN :
          ReadLine(parse_ok, cred_ok, nested_ok)
    \/ EndOfFile

SpecScript == Init /\ [][NextScript]_vars

-----------------------------------------------------------------------------
(* Properties of the Template operations *)

\* the operations of claim C1: those written to send an HTTP request
HttpOps == {"create", "update", "delete", "generate_template_certificate_authority",
            "generate_temporary_certificate", "get_certificate",
            "get_certificates_for_template", "list", "lookup"}

LastSent == call.sent[Len(call.sent)]

\* how the call treated the status of its last response
Observed ==
    IF call.outcome = Unexpected THEN "error"
    ELSE IF call.outcome = "return" /\ call.result = None THEN "not-found"
    ELSE "success"

\* the classification the specification gives for every operation
UniformClass(status) ==
    IF status \in {200, 201, 204} THEN "success"
    ELSE IF status = 404 THEN "not-found"
    ELSE "error"

\* the statuses each request site accepts as success, and the sites where
\* 404 is the not-found sentinel
Accepted(op, nth) ==
    CASE op = "create" /\ nth = 1 -> {200, 201, 204}
      [] op = "create" /\ nth = 2 -> {200}
      [] op = "update" -> {200, 204}
      [] op = "delete" -> {200, 204, 404}
      [] op \in {"generate_template_certificate_authority",
                 "generate_temporary_certificate"} -> {201}
      [] OTHER -> {200}

HasSentinel(op) == op \in {"get_certificates_for_template", "lookup"}

CreateRefetched ==
    /\ Len(call.sent) = 2
    /\ call.sent[2].method = "GET"
    /\ call.sent[2].target = Target("{location}/properties", call.sent[1].location)
    /\ call.sent[2].status = 200 =>
          LET json == call.sent[2].json
          IN  /\ call.outcome = "return"
              /\ DOMAIN config = DOMAIN json
              /\ \A k \in DOMAIN json \ {"req"} : config[k] = json[k]
              /\ template_id(config) = json["template-id"]
              /\ template_version(config) = json["template-version"]
              /\ template_id(config) # None
              /\ template_version(config) # None

CreatePosted ==
    /\ call.op = "create"
    /\ call.sent # <<>>
    /\ call.sent[1].status \in {200, 201, 204}

\* C2 as stated: whenever the POST of create is answered 200, 201 or 204,
\* create issues exactly one GET for the properties of the resource named by
\* the location header and, when that GET answers 200, the local
\* configuration is the fetched one, with the server's ID and version.
C2_CreateAlwaysRefetches == CreatePosted => CreateRefetched

\* C2 amended: the same, for a POST response that carries a location header;
\* a successful response without one ends create with a KeyError before any
\* GET is sent.
C2_CreateRefetchesByLocation ==
    CreatePosted =>
        IF call.sent[1].location # None
        THEN CreateRefetched
        ELSE Len(call.sent) = 1 /\ call.outcome = "KeyError" /\ config = call.pre

\* a template without an ID was created and now carries the server's ID
C2_Witness ==
    /\ call.op = "create"
    /\ call.outcome = "return"
    /\ template_id(call.pre) = None
    /\ template_id(config) = "id-2"
    /\ template_version(config) = "1"

\* the PUT of update: the marshalled configuration without the two
\* server-assigned fields, every other field present
UpdateSentLocalFields ==
    /\ Len(call.sent) = 1
    /\ call.sent[1].method = "PUT"
    /\ LET body == call.sent[1].body
       IN  /\ DOMAIN body = (DOMAIN call.pre) \ {"template-id", "template-version"}
           /\ \A k \in DOMAIN body \ {"req"} : body[k] = call.pre[k]
           /\ "req" \in DOMAIN body => body["req"] = RawDict(call.pre["req"].cfg)

\* C3 as stated: for every Template, update sends that PUT and leaves the
\* local configuration as it was.
C3_UpdateEveryTemplate ==
    call.op = "update" => (UpdateSentLocalFields /\ config = call.pre)

\* C3 amended: update leaves the local configuration of every Template as it
\* was; it sends the PUT when the configuration holds both template-id and
\* template-version, and otherwise (a template never created, or deleted)
\* ends with a KeyError before sending anything.
C3_UpdateSavedTemplate ==
    call.op = "update" =>
        /\ config = call.pre
        /\ template_id(config) = template_id(call.pre)
        /\ template_version(config) = template_version(call.pre)
        /\ IF {"template-id", "template-version"} \subseteq DOMAIN call.pre
           THEN UpdateSentLocalFields
           ELSE call.sent = <<>> /\ call.outcome = "KeyError"

\* a created template with options and a request was updated
C3_Witness ==
    /\ call.op = "update"
    /\ call.outcome = "return"
    /\ {"template-id", "template-version", "req", "options"} \subseteq DOMAIN call.pre

\* C4 as stated: whatever the lifecycle state of the template, when the
\* server answers the DELETE with 200, 204 or 404, delete returns normally
\* and template_id() is None afterwards.
C4_DeleteAnyLifecycle ==
    (call.op = "delete" /\ call.sent # <<>> /\ LastSent.status \in {200, 204, 404}) =>
        (call.outcome = "return" /\ template_id(config) = None)

\* C5 as stated: a key-type that is present is 'rsa', and setting another
\* value raises the validation error and leaves the key-type as it was.
C5_KeyTypeIsRsa ==
    /\ constructed => ("key-type" \in DOMAIN config => config["key-type"] = "rsa")
    /\ (call.op = "set_key_type" /\ call.outcome # "return") =>
          (call.outcome = "ValidationError" /\ key_type(config) = key_type(call.pre))

Expected(op, nth) ==
    Accepted(op, nth) \cup (IF HasSentinel(op) \/ op = "read" THEN {404} ELSE {})

\* C10: when an operation receives an unexpected status, the error reaches
\* the caller carrying the response body, the request that got that status is
\* the last one the call sent, and the local configuration is what it was
\* before the call.
C10_UnexpectedStatusSurfaces ==
    call.outcome = Unexpected =>
        /\ call.sent # <<>>
        /\ LastSent.status \notin Expected(call.op, Len(call.sent))
        /\ \A i \in 1..(Len(call.sent) - 1) : call.sent[i].status \in Expected(call.op, i)
        /\ call.exc_arg = LastSent.text
        /\ config = call.pre

\* the second request of create got an unexpected status
C10_Witness ==
    /\ call.op = "create"
    /\ Len(call.sent) = 2
    /\ call.outcome = Unexpected
    /\ template_id(call.pre) # None

-----------------------------------------------------------------------------
(* Properties of MMA.run *)

\* the malformed argument combinations of claim C7, read off the positional
\* tokens
Malformed(pos) ==
    \/ Len(pos) = 0
    \/ Len(pos) = 1 /\ pos[1] \notin empty_artifact_commands
    \/ Len(pos) = 2 /\ pos[2] \in server_subtypes

\* C7 as stated: on a malformed argument combination run prints the usage
\* message and exits with a nonzero status, invoking no command code and
\* raising no uncaught exception.
C7_MalformedArgvPrintsUsage ==
    (run.outcome # "none" /\ Malformed(run.classified.positional)) =>
        /\ run.outcome = "exit"
        /\ run.printed = "usage"
        /\ run.exit_status # 0
        /\ run.invoked = "none"

\* the tokens of argv at the positions in S, in input order
RECURSIVE Sub(_, _, _)
Sub(argv, S, i) ==
    IF i > Len(argv) THEN <<>>
    ELSE (IF i \in S THEN <<argv[i]>> ELSE <<>>) \o Sub(argv, S, i + 1)

Positions(argv) == 1..Len(argv)

\* claim C8 read literally: an option is a token starting with '-' or the
\* token right after a token starting with '-' other than --debug
LiteralOption(argv, i) ==
    \/ startswith(argv[i], "-")
    \/ i > 1 /\ startswith(argv[i - 1], "-") /\ argv[i - 1] # tok_debug

\* the list each position belongs to: a token starting with '-' is a flag
\* unless it is the argument of the flag before it
Kind(argv) ==
    LET k[i \in Positions(argv)] ==
            IF i > 1 /\ k[i - 1] = "flag" /\ argv[i - 1] # tok_debug THEN "argument"
            ELSE IF startswith(argv[i], "-") THEN "flag"
            ELSE IF contains(argv[i], "=") THEN "param"
            ELSE "positional"
    IN  k

Count(seq, tok) == Cardinality({i \in 1..Len(seq) : seq[i] = tok})

\* neither the server sub-type rewrite nor the stop rewrite applies
NoRewrite(pos) ==
    /\ ~(Len(pos) >= 2 /\ pos[2] \in server_subtypes)
    /\ ~(Len(pos) = 1 /\ pos[1] = tok_stop)

\* the three lists hold the tokens at the given positions in input order,
\* and the rebuilt argv is options, positional, params with nothing lost
Normalized(optionAt, paramAt, positionalAt) ==
    /\ run.classified.options = Sub(run.argv, optionAt, 1)
    /\ run.classified.params = Sub(run.argv, paramAt, 1)
    /\ run.classified.positional = Sub(run.argv, positionalAt, 1)
    /\ (run.rebuilt /\ NoRewrite(run.classified.positional)) =>
          /\ run.parser_argv = run.classified.options \o run.classified.positional
                                  \o run.classified.params
          /\ Len(run.parser_argv) = Len(run.argv)
          /\ \A i \in Positions(run.argv) :
                Count(run.parser_argv, run.argv[i]) = Count(run.argv, run.argv[i])

\* C8 as stated: options are the tokens starting with '-' and, unless such a
\* token is --debug, the token right after it; params the remaining tokens
\* containing '='; positional every other token.
C8_LiteralNormalization ==
    run.outcome # "none" =>
        LET argv == run.argv
            opt == {i \in Positions(argv) : LiteralOption(argv, i)}
            par == {i \in Positions(argv) \ opt : contains(argv[i], "=")}
        IN  Normalized(opt, par, Positions(argv) \ (opt \cup par))

\* C8 amended: a token that is itself the argument of the option before it
\* takes no argument of its own, even when it starts with '-'; with that
\* reading of "option", the lists, their order and the rebuilt argv are as
\* claimed.
C8_Normalization ==
    run.outcome # "none" =>
        LET argv == run.argv
            k == Kind(argv)
        IN  Normalized({i \in Positions(argv) : k[i] \in {"flag", "argument"}},
                       {i \in Positions(argv) : k[i] = "param"},
                       {i \in Positions(argv) : k[i] = "positional"})

\* an argv in every order: a param first, --debug, an option with its
\* argument, then the command and its artifact, rebuilt for the parser
C8_Witness ==
    /\ run.rebuilt
    /\ run.argv = <<tok_param, tok_debug, tok_list, tok_db>>
    /\ run.parser_argv = <<tok_debug, tok_list, tok_db, tok_param>>

-----------------------------------------------------------------------------
(* Properties of MMA.process_script *)

\* line i of the file as process_script sees it
Stripped(i) == strip(script[i])

Continues(i) == endswith(Stripped(i), "\\")

\* the lines that complete a command: those not ending in a backslash
Completing == {i \in 1..Len(script) : ~Continues(i)}

\* the first line of the command that line e completes
FirstLineOf(e) ==
    LET before == {i \in Completing : i < e}
    IN  IF before = {} THEN 1 ELSE 1 + CHOOSE m \in before : \A i \in before : i <= m

\* lines a..e joined, the backslash of each continued line removed
RECURSIVE Joined(_, _)
Joined(a, e) ==
    IF a > e THEN <<>>
    ELSE (IF Continues(a) THEN SubSeq(Stripped(a), 1, Len(Stripped(a)) - 1)
          ELSE Stripped(a)) \o Joined(a + 1, e)

\* the e-th line completes a command: its argv
CommandOf(e) == shlex_split(strip(Joined(FirstLineOf(e), e))).tokens

\* the completing lines in file order
RECURSIVE Ordered(_)
Ordered(S) ==
    IF S = {} THEN <<>>
    ELSE LET m == CHOOSE x \in S : \A y \in S : x <= y
         IN  <<m>> \o Ordered(S \ {m})

LoopEnded == pc \in {"returned", "premature_eof"}

\* C9 as stated: the commands handed to run are the joined commands of the
\* file, each once, in file order and each only when its last line has been
\* read; and a file whose last line ends in a backslash ends with the
\* premature-end-of-file error (exit status 1) after its earlier commands ran.
C9_ScriptReplay ==
    LET ends == Ordered(Completing)
    IN  /\ Len(dispatched) <= Len(ends)
        /\ \A j \in 1..Len(dispatched) :
              /\ dispatched[j].argv = CommandOf(ends[j])
              /\ dispatched[j].upto = ends[j]
        /\ LoopEnded => Len(dispatched) = Len(ends)
        /\ (LoopEnded /\ Len(script) > 0 /\ Continues(Len(script))) => pc = "premature_eof"
        /\ pc = "premature_eof" => (Len(script) > 0 /\ Continues(Len(script)))

-----------------------------------------------------------------------------
(* The server sub-type and stop rewrites of MMA.run *)

\* run got past the two usage checks of lines 57-72
PastUsage == run.outcome # "none" /\ ~(run.outcome = "exit" /\ run.printed = "usage")

\* the lists claim C11 describes for positional tokens pos with a server
\* sub-type as artifact
RewrittenPositional(pos) ==
    LET art == IF pos[1] = tok_list THEN tok_servers ELSE tok_server
        named == <<pos[1], art>> \o SubSeq(pos, 3, Len(pos))
    IN  IF Len(pos) >= 3 /\ pos[3] = art
        THEN <<pos[1], art>> \o SubSeq(pos, 4, Len(pos))
        ELSE named

\* C11 as stated: a server sub-type artifact is rewritten to 'servers' for
\* list and 'server' for every other command, a third positional token equal
\* to the rewritten artifact is removed and '--type', sub-type end the
\* options; every other artifact leaves the lists as classified, except that
\* stop with no artifact gets the artifact 'host'.
C11_ServerRewrite ==
    PastUsage =>
        LET pos == run.classified.positional
            opts == run.classified.options
        IN  IF Len(pos) >= 2 /\ pos[2] \in server_subtypes
            THEN /\ run.artifact = <<IF pos[1] = tok_list THEN tok_servers ELSE tok_server>>
                 /\ run.positional = RewrittenPositional(pos)
                 /\ run.options = opts \o <<tok_type, pos[2]>>
            ELSE /\ run.options = opts
                 /\ IF Len(pos) = 1 /\ pos[1] = tok_stop
                    THEN run.positional = <<tok_stop, tok_host>> /\ run.artifact = <<tok_host>>
                    ELSE /\ run.positional = pos
                         /\ run.artifact = (IF Len(pos) >= 2 THEN <<pos[2]>> ELSE <<>>)

-----------------------------------------------------------------------------
(* Template.read *)

\* C12 as stated: read on a template that has an ID looks it up by that ID
\* and, answered 200, refreshes the template and returns it; answered 404 it
\* returns None and leaves the configuration as it was; on a template with
\* no ID it raises the validation error without sending a request.
C12_ReadRefreshes ==
    call.op = "read" =>
        IF template_id(call.pre) = None
        THEN call.outcome = "ValidationError" /\ call.sent = <<>> /\ config = call.pre
        ELSE /\ Len(call.sent) = 1
             /\ call.sent[1].method = "GET"
             /\ call.sent[1].target = PropertiesUri(template_id(call.pre))
             /\ call.sent[1].status = 200 => (call.outcome = "return" /\ call.result = "self")
             /\ call.sent[1].status = 404 =>
                   (call.outcome = "return" /\ call.result = None /\ config = call.pre)

-----------------------------------------------------------------------------
(* marshal and unmarshal *)

C13_RoundTripWitness ==
    /\ life = "new"
    /\ call.op = "roundtrip"
    /\ call.outcome = "return"
    /\ {"req", "options"} \subseteq DOMAIN call.result.second

=============================================================================
